---- MODULE Spec2Model ----
(***************************************************************************)
(* SmartAPITest (src/smartapitest.py): analyze_spec flattens a resolved    *)
(* API description into operation descriptors, generate_test_case asks an  *)
(* external service for test cases, run_test_case sends one request and    *)
(* computes a verdict, and main sequences the three and writes two files.  *)
(*                                                                         *)
(* Python dicts whose iteration order matters (spec['paths'] and each path *)
(* item) are sequences of <<key, value>> pairs with distinct keys; every   *)
(* other dict is a function whose DOMAIN is the set of keys present.       *)
(***************************************************************************)
EXTENDS Integers, Sequences, FiniteSets, TLC

VARIABLES
  spec,              \* main: openapi_spec, the resolved description
  operations,        \* main: operations = analyze_spec(openapi_spec)
  all_test_cases,    \* main: all_test_cases (its elements are mutable dicts)
  test_results,      \* main: test_results
  test_cases_json,   \* contents of test_cases.json, NoFile before it is written
  test_results_json, \* contents of test_results.json, NoFile before it is written
  pc,                \* position of main
  op_i,              \* position of the loop of line 109 (1-based)
  zip_i,             \* position of the loop of line 122 (1-based)
  origin,            \* history: origin[k] = index of the operation whose call produced all_test_cases[k]
  log                \* history: the calls main made, in order

vars == <<spec, operations, all_test_cases, test_results, test_cases_json,
          test_results_json, pc, op_i, zip_i, origin, log>>

-----------------------------------------------------------------------------
(* Bounds of the enumerated inputs *)

MaxMethods == 2    \* method keys of a path item
MaxOps == 2        \* operations of a description in a whole run
MaxCases == 2      \* test cases returned by one generation call

-----------------------------------------------------------------------------
(* Python values *)

None == "None"
NoFile == "NoFile"
EmptyDict == [k \in {} |-> None]

\* dict.get(key, default)
Get(d, key, default) == IF key \in DOMAIN d THEN d[key] ELSE default

\* d[key] = value on a dict
Put(d, key, value) == [k \in DOMAIN d \cup {key} |-> IF k = key THEN value ELSE d[k]]

Min(a, b) == IF a < b THEN a ELSE b

\* str.lower() on the method names a test case may carry
Lower(s) ==
  CASE s = "GET" -> "get"
    [] s = "Get" -> "get"
    [] s = "POST" -> "post"
    [] s = "Post" -> "post"
    [] OTHER -> s

-----------------------------------------------------------------------------
(* analyze_spec *)

DefaultConsumes == <<"application/json">>

\* the list of line 18 with post left out
HttpMethods_NoPost == {"get", "put", "delete", "patch"}

HttpMethods == {"get", "post", "put", "delete", "patch"}

\* line 20 without the operation-level lookup
Descriptor_GlobalConsumes(path, method, operation, global_consumes) ==
  [path |-> path,
   method |-> method,
   operation_id |-> Get(operation, "operationId", method \o "_" \o path),
   parameters |-> Get(operation, "parameters", <<>>),
   requestBody |-> Get(operation, "requestBody", EmptyDict),
   responses |-> Get(operation, "responses", EmptyDict),
   consumes |-> global_consumes]

Descriptor(path, method, operation, global_consumes) ==
  [path |-> path,
   method |-> method,
   operation_id |-> Get(operation, "operationId", method \o "_" \o path),
   parameters |-> Get(operation, "parameters", <<>>),
   requestBody |-> Get(operation, "requestBody", EmptyDict),
   responses |-> Get(operation, "responses", EmptyDict),
   consumes |-> Get(operation, "consumes", global_consumes)]

\* the inner loop of analyze_spec over one path item
RECURSIVE PathItemOperations(_, _, _)
PathItemOperations(path, path_item, global_consumes) ==
  IF path_item = <<>> THEN <<>>
  ELSE LET method == path_item[1][1]
           operation == path_item[1][2]
       IN (IF method \in HttpMethods
           THEN <<Descriptor(path, method, operation, global_consumes)>>
           ELSE <<>>)
          \o PathItemOperations(path, Tail(path_item), global_consumes)

\* the outer loop of analyze_spec over spec['paths']
RECURSIVE PathsOperations(_, _)
PathsOperations(paths, global_consumes) ==
  IF paths = <<>> THEN <<>>
  ELSE PathItemOperations(paths[1][1], paths[1][2], global_consumes)
       \o PathsOperations(Tail(paths), global_consumes)

analyze_spec(s) == PathsOperations(s.paths, Get(s, "consumes", DefaultConsumes))

-----------------------------------------------------------------------------
(* run_test_case *)

FormType == "application/x-www-form-urlencoded"

\* headers = request.get('headers', {})
RequestHeaders(request) == Get(request, "headers", EmptyDict)

\* line 68 without the test for an existing Content-Type
InjectContentType_Overwrite(headers, operation) ==
  IF operation.consumes # <<>>
  THEN Put(headers, "Content-Type", operation.consumes[1])
  ELSE headers

\* lines 68-69
InjectContentType(headers, operation) ==
  IF "Content-Type" \notin DOMAIN headers /\ operation.consumes # <<>>
  THEN Put(headers, "Content-Type", operation.consumes[1])
  ELSE headers

\* the headers handed to requests.request
SentHeaders(test_case, operation) ==
  InjectContentType(RequestHeaders(test_case.request), operation)

\* the arguments of requests.request (lines 62-75)
OutboundRequest(base_url, test_case, operation) ==
  LET headers == SentHeaders(test_case, operation)
  IN [url |-> base_url \o test_case.request.path,
      method |-> Lower(test_case.request.method),
      headers |-> headers,
      encoding |-> IF Get(headers, "Content-Type", None) = FormType THEN "data" ELSE "json",
      body |-> Get(test_case.request, "body", None)]

\* The test_case dict after the call. When the request carries a 'headers'
\* key, the local name headers is that same dict, and line 69 writes into it;
\* otherwise headers is the fresh {} of line 64.
TestCaseAfterRun(test_case, operation) ==
  IF "headers" \in DOMAIN test_case.request
  THEN [test_case EXCEPT !.request.headers = SentHeaders(test_case, operation)]
  ELSE test_case

ParseError == "ParseError"

\* response.json() on the response texts of the model
JsonParse(text) ==
  CASE text = "{}" -> "json_object"
    [] text = "[1]" -> "json_array"
    [] OTHER -> ParseError

\* lines 94-99
ErrorResult(test_case, message) ==
  [test_name |-> test_case.test_name, passed |-> FALSE, error |-> message]

\* line 85 with the bodies compared too
VerifiedResult_BodyCompared(test_case, response) ==
  [test_name |-> test_case.test_name,
   passed |-> /\ response.status_code = test_case.expected_response.status_code
              /\ Get(test_case.expected_response, "body", None) =
                   (IF response.text # "" THEN JsonParse(response.text) ELSE None),
   expected_status |-> test_case.expected_response.status_code,
   actual_status |-> response.status_code,
   expected_body |-> Get(test_case.expected_response, "body", None),
   actual_body |-> IF response.text # "" THEN JsonParse(response.text) ELSE None]

\* lines 77-92
VerifiedResult(test_case, response) ==
  [test_name |-> test_case.test_name,
   passed |-> (response.status_code = test_case.expected_response.status_code),
   expected_status |-> test_case.expected_response.status_code,
   actual_status |-> response.status_code,
   expected_body |-> Get(test_case.expected_response, "body", None),
   actual_body |-> IF response.text # "" THEN JsonParse(response.text) ELSE None]

\* line 78 with a failed parse not turned into an error result
run_test_case_ParseOutsideTry(test_case, outcome) ==
  IF outcome.kind = "raise" THEN ErrorResult(test_case, outcome.error)
  ELSE VerifiedResult(test_case, outcome)

\* the value run_test_case returns when requests.request behaves as outcome
run_test_case(test_case, outcome) ==
  IF outcome.kind = "raise" THEN ErrorResult(test_case, outcome.error)
  ELSE IF outcome.text # "" /\ JsonParse(outcome.text) = ParseError
       THEN ErrorResult(test_case, "JSONDecodeError")
       ELSE VerifiedResult(test_case, outcome)

-----------------------------------------------------------------------------
(* Inputs *)

BaseUrl == "http://localhost:8080"

SeqsUpTo(S, n) == UNION {[1..m -> S] : m \in 0..n}

InjectiveSeqs(K, n) ==
  {ks \in SeqsUpTo(K, n) : \A i, j \in 1..Len(ks) : i # j => ks[i] # ks[j]}

\* insertion-ordered dicts with keys in K, values in V and at most n entries
OrderedDicts(K, V, n) ==
  UNION {{[i \in 1..Len(ks) |-> <<ks[i], vs[i]>>] : vs \in [1..Len(ks) -> V]} :
         ks \in InjectiveSeqs(K, n)}

\* a description holds any of these paths, in any order
PathNames == {"/items", "/health"}

MethodKeys == {"get", "post", "head"}

OperationObjects ==
  {EmptyDict, [operationId |-> "createItem", consumes |-> <<"text/plain">>]}

PathItems == OrderedDicts(MethodKeys, OperationObjects, MaxMethods)

Descriptions ==
  LET paths == OrderedDicts(PathNames, PathItems, Cardinality(PathNames))
  IN {[paths |-> p] : p \in paths}
     \cup {[paths |-> p, consumes |-> <<"application/xml">>] : p \in paths}

\* what requests.request and response.json() can do
Outcomes ==
  {[kind |-> "raise", error |-> "ConnectionError"]}
  \cup {[kind |-> "response", status_code |-> s, text |-> t] :
          s \in {200, 201}, t \in {"", "{}", "<html>"}}

\* the outcomes drawn in a whole run
RunOutcomes ==
  {[kind |-> "raise", error |-> "ConnectionError"],
   [kind |-> "response", status_code |-> 200, text |-> "{}"]}

\* test cases the generation service may return: the request with or without
\* 'headers' and 'body', the expected response with or without 'body'
HeaderDicts ==
  {EmptyDict,
   Put(EmptyDict, "Accept", "*/*"),
   Put(EmptyDict, "Content-Type", "text/plain"),
   Put(EmptyDict, "content-type", "text/plain"),
   Put(Put(EmptyDict, "Accept", "*/*"), "Content-Type", FormType)}

Requests ==
  LET bare == {[method |-> "POST", path |-> "/items"]}
      withHeaders == bare \cup {Put(r, "headers", h) : r \in bare, h \in HeaderDicts}
  IN withHeaders \cup {Put(r, "body", "json_object") : r \in withHeaders}

ExpectedResponses ==
  LET bare == {[status_code |-> s] : s \in {200, 201}}
  IN bare \cup {Put(e, "body", "json_object") : e \in bare}

TestCases ==
  {[test_name |-> "t1", request |-> r, expected_response |-> e] :
     r \in Requests, e \in ExpectedResponses}

\* the two test cases of a whole run
RunTestCases ==
  {[test_name |-> "t1",
    request |-> [method |-> "GET", path |-> "/items", headers |-> Put(EmptyDict, "Accept", "*/*")],
    expected_response |-> [status_code |-> 200]],
   [test_name |-> "t2",
    request |-> [method |-> "Post", path |-> "/items", body |-> "json_object"],
    expected_response |-> [status_code |-> 201, body |-> "json_object"]]}

\* what one call of generate_test_case may return
GeneratedLists == SeqsUpTo(RunTestCases, MaxCases)

MethodOrder == <<"get", "post", "put", "delete", "patch">>

\* descriptions of a whole run: one path with the first n methods
RunDescriptions ==
  {[paths |-> <<<<"/items", [i \in 1..n |-> <<MethodOrder[i], EmptyDict>>]>>>>] :
     n \in 0..Min(MaxOps, Len(MethodOrder))}

\* descriptions of the runs that look at one call of run_test_case
ConsumesLists ==
  {<<>>, <<"text/plain">>, <<"application/json", "application/xml">>, <<FormType>>}

CallDescriptions ==
  {[paths |-> <<<<"/items", <<<<"post", op>>, <<"head", EmptyDict>>, <<"get", EmptyDict>>>>>>>>] :
     op \in {EmptyDict} \cup {[consumes |-> c] : c \in ConsumesLists}}

-----------------------------------------------------------------------------
(* main *)

Event(call, op, tc, request, outcome) ==
  [call |-> call, op |-> op, tc |-> tc, request |-> request, outcome |-> outcome]

\* the number of pairs zip(all_test_cases, operations) yields
ZipLen(test_cases, ops) == Min(Len(test_cases), Len(ops))

Start(descriptions) ==
  /\ spec \in descriptions
  /\ operations = <<>>
  /\ all_test_cases = <<>>
  /\ test_results = <<>>
  /\ test_cases_json = NoFile
  /\ test_results_json = NoFile
  /\ pc = "analyze"
  /\ op_i = 1
  /\ zip_i = 1
  /\ origin = <<>>
  /\ log = <<>>

\* line 106
Analyze ==
  /\ pc = "analyze"
  /\ operations' = analyze_spec(spec)
  /\ pc' = "generate"
  /\ UNCHANGED <<spec, all_test_cases, test_results, test_cases_json,
                 test_results_json, op_i, zip_i, origin, log>>

\* lines 109-112, the call returns
GenerateTestCase ==
  /\ pc = "generate"
  /\ op_i <= Len(operations)
  /\ \E test_case \in GeneratedLists :
       /\ all_test_cases' = all_test_cases \o test_case
       /\ origin' = origin \o [k \in 1..Len(test_case) |-> op_i]
  /\ log' = Append(log, Event("generate", op_i, 0, None, None))
  /\ op_i' = op_i + 1
  /\ UNCHANGED <<spec, operations, test_results, test_cases_json,
                 test_results_json, pc, zip_i>>

\* line 111, the call raises: nothing in main catches it
GenerateRaises ==
  /\ pc = "generate"
  /\ op_i <= Len(operations)
  /\ log' = Append(log, Event("generate", op_i, 0, None, None))
  /\ pc' = "crashed"
  /\ UNCHANGED <<spec, operations, all_test_cases, test_results, test_cases_json,
                 test_results_json, op_i, zip_i, origin>>

\* the loop of line 109 left one operation early
SaveTestCases_BeforeLastOperation ==
  /\ pc = "generate"
  /\ op_i >= Len(operations)
  /\ test_cases_json' = all_test_cases
  /\ test_results' = <<>>
  /\ zip_i' = 1
  /\ pc' = "execute"
  /\ UNCHANGED <<spec, operations, all_test_cases, test_results_json, op_i,
                 origin, log>>

\* lines 115-121
SaveTestCases ==
  /\ pc = "generate"
  /\ op_i > Len(operations)
  /\ test_cases_json' = all_test_cases
  /\ test_results' = <<>>
  /\ zip_i' = 1
  /\ pc' = "execute"
  /\ UNCHANGED <<spec, operations, all_test_cases, test_results_json, op_i,
                 origin, log>>

\* lines 122-131, one iteration
RunTestCase(outcomes) ==
  /\ pc = "execute"
  /\ zip_i <= ZipLen(all_test_cases, operations)
  /\ \E outcome \in outcomes :
       LET test_case == all_test_cases[zip_i]
           operation == operations[zip_i]
       IN /\ test_results' = Append(test_results, run_test_case(test_case, outcome))
          /\ all_test_cases' =
               [all_test_cases EXCEPT ![zip_i] = TestCaseAfterRun(test_case, operation)]
          /\ log' = Append(log, Event("run", zip_i, zip_i,
                                      OutboundRequest(BaseUrl, test_case, operation),
                                      outcome))
  /\ zip_i' = zip_i + 1
  /\ UNCHANGED <<spec, operations, test_cases_json, test_results_json, pc,
                 op_i, origin>>

\* lines 134-137
SaveResults ==
  /\ pc = "execute"
  /\ zip_i > ZipLen(all_test_cases, operations)
  /\ test_results_json' = test_results
  /\ pc' = "done"
  /\ UNCHANGED <<spec, operations, all_test_cases, test_results,
                 test_cases_json, op_i, zip_i, origin, log>>

-----------------------------------------------------------------------------
(* Specifications *)

\* a whole run of main
Init == Start(RunDescriptions)

Next ==
  \/ Analyze
  \/ GenerateTestCase
  \/ GenerateRaises
  \/ SaveTestCases
  \/ RunTestCase(RunOutcomes)
  \/ SaveResults

Spec == Init /\ [][Next]_vars

\* analyze_spec on every description of the bounds
InitAnalyze == Start(Descriptions)

NextAnalyze == Analyze

SpecAnalyze == InitAnalyze /\ [][NextAnalyze]_vars

\* run_test_case on every test case and consumes list: main after the first
\* operation returned the one test case test_case and the second returned
\* one of the test cases of a whole run, and test_cases.json was written
InitCall ==
  \E d \in CallDescriptions, test_case \in TestCases, second \in RunTestCases :
    /\ spec = d
    /\ operations = analyze_spec(d)
    /\ all_test_cases = <<test_case, second>>
    /\ test_results = <<>>
    /\ test_cases_json = <<test_case, second>>
    /\ test_results_json = NoFile
    /\ pc = "execute"
    /\ op_i = 3
    /\ zip_i = 1
    /\ origin = <<1, 2>>
    /\ log = <<Event("generate", 1, 0, None, None), Event("generate", 2, 0, None, None)>>

NextCall == RunTestCase(Outcomes) \/ SaveResults

SpecCall == InitCall /\ [][NextCall]_vars

-----------------------------------------------------------------------------
(* Properties of analyze_spec, checked under SpecAnalyze *)

\* the positions <<i, j>> of the description: method entry j of path i
Entries ==
  UNION {{<<i, j>> : j \in 1..Len(spec.paths[i][2])} : i \in 1..Len(spec.paths)}

EntryPath(p) == spec.paths[p[1]][1]
EntryMethod(p) == spec.paths[p[1]][2][p[2]][1]
EntryOperation(p) == spec.paths[p[1]][2][p[2]][2]

RecognizedEntries ==
  {p \in Entries : EntryMethod(p) \in {"get", "post", "put", "delete", "patch"}}

\* the entry a descriptor was made from (keys are unique, so there is one)
EntryOf(k) ==
  CHOOSE p \in Entries :
    EntryPath(p) = operations[k].path /\ EntryMethod(p) = operations[k].method

DocumentOrder(p, q) == p[1] < q[1] \/ (p[1] = q[1] /\ p[2] < q[2])

\* C1: analyze_spec returns one descriptor per (path, method) entry whose
\* method is get, post, put, delete or patch, none for any other method key,
\* in document order; a path without recognized methods contributes nothing.
C1_OneDescriptorPerRecognizedEntry ==
  pc # "analyze" =>
    /\ Len(operations) = Cardinality(RecognizedEntries)
    /\ \A k \in 1..Len(operations) :
         \E p \in RecognizedEntries :
           EntryPath(p) = operations[k].path /\ EntryMethod(p) = operations[k].method
    /\ \A k, l \in 1..Len(operations) :
         k < l => DocumentOrder(EntryOf(k), EntryOf(l))

\* a first path holding only head and a second path holding post before get
C1_Witness ==
  /\ pc # "analyze"
  /\ Len(spec.paths) = 2
  /\ \A j \in 1..Len(spec.paths[1][2]) : spec.paths[1][2][j][1] = "head"
  /\ Len(spec.paths[1][2]) = 1
  /\ Len(operations) = 2
  /\ operations[1].method = "post" /\ operations[2].method = "get"
  /\ operations[1].path = spec.paths[2][1]

\* C2: a descriptor's consumes is the operation's own consumes when the
\* operation declares one, else the document's consumes when the document
\* declares one, else ["application/json"], resolved per operation.
C2_ConsumesFallback ==
  pc # "analyze" =>
    \A k \in 1..Len(operations) :
      LET operation == EntryOperation(EntryOf(k))
      IN operations[k].consumes =
           IF "consumes" \in DOMAIN operation THEN operation.consumes
           ELSE IF "consumes" \in DOMAIN spec THEN spec.consumes
           ELSE <<"application/json">>

\* a document with consumes whose two operations resolve differently
C2_Witness ==
  /\ pc # "analyze"
  /\ "consumes" \in DOMAIN spec
  /\ \E k, l \in 1..Len(operations) :
       /\ "consumes" \in DOMAIN EntryOperation(EntryOf(k))
       /\ "consumes" \notin DOMAIN EntryOperation(EntryOf(l))
       /\ operations[k].consumes = <<"text/plain">>
       /\ operations[l].consumes = <<"application/xml">>

-----------------------------------------------------------------------------
(* Properties of run_test_case, checked under SpecCall *)

\* the positions in log of the calls of run_test_case
RunEvents == {a \in 1..Len(log) : log[a].call = "run"}

\* the test case of a call as it was before the call: test_cases.json holds
\* the list as generated, and a test case is the argument of one call at most
GivenTestCase(a) == test_cases_json[log[a].tc]

GivenHeaders(a) ==
  IF "headers" \in DOMAIN GivenTestCase(a).request
  THEN GivenTestCase(a).request.headers
  ELSE EmptyDict

\* an execution failure: requests.request raises, or the response has a
\* non-empty text that is not JSON
IsFailure(outcome) ==
  \/ outcome.kind = "raise"
  \/ outcome.kind = "response" /\ outcome.text \notin {"", "{}", "[1]"}

\* C3: the headers sent are the test case's headers, plus Content-Type set
\* to the first element of the descriptor's consumes when the test case has
\* no key 'Content-Type' and consumes is not empty; an existing Content-Type
\* is kept, and nothing is injected when consumes is empty.
C3_ContentTypeInjection ==
  \A a \in RunEvents :
    LET given == GivenHeaders(a)
        sent == log[a].request.headers
        consumes == operations[log[a].op].consumes
    IN /\ ("Content-Type" \notin DOMAIN given /\ consumes # <<>>) =>
            ("Content-Type" \in DOMAIN sent /\ sent["Content-Type"] = consumes[1])
       /\ "Content-Type" \in DOMAIN given =>
            ("Content-Type" \in DOMAIN sent /\ sent["Content-Type"] = given["Content-Type"])
       /\ ("Content-Type" \notin DOMAIN given /\ consumes = <<>>) =>
            "Content-Type" \notin DOMAIN sent
       /\ DOMAIN sent \ {"Content-Type"} = DOMAIN given \ {"Content-Type"}
       /\ \A k \in DOMAIN given \ {"Content-Type"} : sent[k] = given[k]

\* a test case with only a lower-case content-type key, sent to an operation
\* that consumes two media types, got the first of them
C3_Witness ==
  \E a \in RunEvents :
    /\ DOMAIN GivenHeaders(a) = {"content-type"}
    /\ Len(operations[log[a].op].consumes) = 2
    /\ log[a].request.headers["Content-Type"] = "application/json"
    /\ log[a].request.headers["content-type"] = "text/plain"

\* C4: when a response was obtained, passed is true exactly when the status
\* codes are equal; the bodies are copied into the result and do not change
\* passed, and both status codes are recorded.
C4_VerdictIsStatusEquality ==
  \A a \in RunEvents :
    ~IsFailure(log[a].outcome) =>
      LET result == test_results[log[a].tc]
          expected == GivenTestCase(a).expected_response
          response == log[a].outcome
      IN /\ result.passed = (response.status_code = expected.status_code)
         /\ result.expected_status = expected.status_code
         /\ result.actual_status = response.status_code
         /\ result.expected_body =
              (IF "body" \in DOMAIN expected THEN expected.body ELSE None)
         /\ result.actual_body =
              (CASE response.text = "" -> None
                 [] response.text = "{}" -> "json_object"
                 [] response.text = "[1]" -> "json_array")

\* one call passed with equal status codes and different bodies, another
\* failed on a different status code
C4_Witness ==
  /\ \E a \in RunEvents :
       /\ ~IsFailure(log[a].outcome)
       /\ test_results[log[a].tc].passed
       /\ test_results[log[a].tc].expected_body = "json_object"
       /\ test_results[log[a].tc].actual_body = None
  /\ \E a \in RunEvents :
       /\ ~IsFailure(log[a].outcome)
       /\ ~test_results[log[a].tc].passed
       /\ test_results[log[a].tc].expected_status = 201
       /\ test_results[log[a].tc].actual_status = 200

\* C5: an execution failure does not leave run_test_case as an exception:
\* the result has passed = false and an error string and no status or body
\* fields, and main goes on with the next test case.
C5_FailureBecomesResult ==
  \A a \in RunEvents :
    IsFailure(log[a].outcome) =>
      /\ pc \in {"execute", "done"}
      /\ Len(test_results) >= log[a].tc
      /\ DOMAIN test_results[log[a].tc] = {"test_name", "passed", "error"}
      /\ test_results[log[a].tc].passed = FALSE
      /\ test_results[log[a].tc].error \in {"ConnectionError", "JSONDecodeError"}
      /\ test_results[log[a].tc].test_name = GivenTestCase(a).test_name

\* the first call met a response that is not JSON, and the second call was
\* made and met a transport error
C5_Witness ==
  /\ Len(test_results) = 2
  /\ \E a, b \in RunEvents :
       /\ log[a].tc = 1 /\ log[b].tc = 2
       /\ log[a].outcome.kind = "response" /\ log[a].outcome.text = "<html>"
       /\ log[b].outcome.kind = "raise"
       /\ test_results[1].error = "JSONDecodeError"
       /\ test_results[2].error = "ConnectionError"

\* C10: after run_test_case returns, the test case, its request.headers
\* included, and the descriptor are equal to what they were before the call.
C10_InputsUnchanged ==
  \A a \in RunEvents :
    /\ all_test_cases[log[a].tc] = GivenTestCase(a)
    /\ operations = analyze_spec(spec)

-----------------------------------------------------------------------------
(* Properties of main, checked under Spec *)

\* C6: every executed test case is passed to run_test_case with the
\* descriptor of the operation whose generation call produced it.
C6_PairedWithOriginatingOperation ==
  \A a \in RunEvents : log[a].op = origin[log[a].tc]

\* C7: at the end of a run the results hold one result per generated test
\* case, in generation order.
C7_OneResultPerTestCase ==
  pc = "done" =>
    /\ Len(test_results_json) = Len(all_test_cases)
    /\ \A k \in 1..Len(test_results_json) :
         test_results_json[k].test_name = all_test_cases[k].test_name

\* C8: after normalization the run is never aborted, a failing generation
\* call included, and a run that ended has written the results.
C8_RunIsNeverAborted ==
  /\ pc # "crashed"
  /\ pc = "done" => test_results_json # NoFile

\* C9: every test case generated for an operation has been executed before
\* the generation call of the next operation starts.
C9_ExecutedBeforeNextGeneration ==
  \A b \in 1..Len(log) :
    (log[b].call = "generate" /\ log[b].op > 1) =>
      \A k \in 1..Len(origin) :
        origin[k] = log[b].op - 1 =>
          \E a \in 1..(b - 1) : log[a].call = "run" /\ log[a].tc = k

\* C9 as amended: the generation calls are made one at a time in descriptor
\* order and all of them before the first test case is executed; the test
\* cases are then executed one at a time in list order.
C9_GenerationPhaseThenExecutionPhase ==
  /\ \A a, b \in 1..Len(log) :
       a < b =>
         /\ ~(log[a].call = "run" /\ log[b].call = "generate")
         /\ (log[a].call = "generate" /\ log[b].call = "generate") => log[a].op < log[b].op
         /\ (log[a].call = "run" /\ log[b].call = "run") => log[a].tc < log[b].tc
  /\ RunEvents # {} =>
       \A i \in 1..Len(operations) :
         \E a \in 1..Len(log) : log[a].call = "generate" /\ log[a].op = i

\* a finished run of two generation calls followed by two executions
C9_Witness ==
  /\ pc = "done"
  /\ Len(log) = 4
  /\ log[1].call = "generate" /\ log[2].call = "generate"
  /\ log[3].call = "run" /\ log[4].call = "run"

====
